---------------------------- MODULE Spec2Model ----------------------------
(***************************************************************************)
(* Model of conv64.cpp: multiplication of polynomials over R = Z/2^64 by   *)
(* a radix-3 FFT in the ring T = R[omega]/(omega^2 + omega + 1).           *)
(*                                                                         *)
(* Word width.  Every uint64_t operation of the source is an operation     *)
(* modulo 2^64.  TLC's integers are 32 bits wide, so the model keeps the   *)
(* words WordBits wide and reduces modulo 2^WordBits wherever the source   *)
(* wraps.  Reduction Z/2^64 -> Z/2^WordBits is a ring homomorphism and     *)
(* the constant INV3 = 0xAAAA...AB reduces to the inverse of 3 for every   *)
(* width, so each identity of the source maps to the same identity here.   *)
(*                                                                         *)
(* Memory.  The T cells the source reaches through raw pointers are one    *)
(* sequence `buf`; a pointer is an offset into it (cell k of the source    *)
(* is buf[k + 1]).  Every routine is an operator from a buffer to the      *)
(* buffer it leaves, writing cell by cell in the order of the source, so   *)
(* in-place updates and aliasing behave as they do in the code.            *)
(***************************************************************************)
EXTENDS Integers, Sequences, FiniteSets, TLC

VARIABLES
    pc,     \* position of the operation under analysis
    arg,    \* the arguments it was called with
    loc,    \* its local variables (m, r, inv, s, pp, qq, tmp, ...)
    buf,    \* the T cells it works on
    out,    \* what it returned / left in the caller's array
    call,   \* SpecCalls: the call being executed (sizes and pointers only)
    stack   \* SpecCalls: the enclosing mul frames of `call`

vars == <<pc, arg, loc, buf, out, call, stack>>

---------------------------------------------------------------------------
(* Bounds of the model *)

WordBits == 8       \* modelled width of uint64_t
MaxBlock == 3       \* SpecTwiddle: largest block size m
MaxSeed == 5        \* number of generated input arrays per size, minus one
MaxLen == 4         \* SpecMultiply: largest number of coefficients of p and of q
MaxK == 10          \* SpecCalls: largest k of a top-level size n = 3^k

Pow2(k) == 2^k
Modulus == Pow2(WordBits)

---------------------------------------------------------------------------
(* struct T and its operators *)

MkT(x, y) == <<x % Modulus, y % Modulus>>
TZero == <<0, 0>>
TOne == <<1, 0>>
TOfWord(x) == <<x % Modulus, 0>>

Conj(u) == MkT(u[1] - u[2], 0 - u[2])
Neg(u) == MkT(0 - u[1], 0 - u[2])

OMEGA == <<0, 1>>
OMEGA2 == MkT(0 - 1, 0 - 1)

\* 12297829382473034411 = 0xAAAAAAAAAAAAAAAB: bits 0, 1, 3, 5, 7, ... are set.
\* Its low WordBits bits:
RECURSIVE Inv3Low(_)
Inv3Low(k) ==
    IF k = 0 THEN 0
    ELSE Inv3Low(k - 1) + (IF k - 1 = 0 \/ (k - 1) % 2 = 1 THEN Pow2(k - 1) ELSE 0)
INV3 == <<Inv3Low(WordBits), 0>>

TAdd(u, v) == MkT(u[1] + v[1], u[2] + v[2])

TSub(u, v) == MkT(u[1] - v[1], u[2] - v[2])

\* operator+= and operator*= (the latter keeps u.a in `tmp` while it
\* overwrites it).
TAddAssign(u, v) == MkT(u[1] + v[1], u[2] + v[2])
TMulAssign(u, v) ==
    LET tmp == u[1]
        ua == (u[1] * v[1] - u[2] * v[2]) % Modulus
    IN  MkT(ua, u[2] * v[1] + tmp * v[2] - u[2] * v[2])

TMul(u, v) == MkT(u[1] * v[1] - u[2] * v[2],
                  u[2] * v[1] + u[1] * v[2] - u[2] * v[2])

---------------------------------------------------------------------------
(* Raw memory *)

Rd(mem, k) == mem[k + 1]
Wr(mem, k, v) == [mem EXCEPT ![k + 1] = v]
Zeros(k) == [i \in 1 .. k |-> TZero] \o <<>>
Block(mem, k, len) == SubSeq(mem, k + 1, k + len)

\* Loops whose iteration i touches cell base + i only:
\*   for (i = 0; i < len; ++i) mem[base + i] = 0;
ClearCells(mem, base, len) ==
    [k \in 1 .. Len(mem) |->
        IF base < k /\ k <= base + len THEN TZero ELSE mem[k]] \o <<>>
\*   for (i = 0; i < len; ++i) mem[base + i] *= c;
ScaleCells(mem, base, len, c) ==
    [k \in 1 .. Len(mem) |->
        IF base < k /\ k <= base + len THEN TMulAssign(mem[k], c) ELSE mem[k]] \o <<>>

---------------------------------------------------------------------------
(* Conv64::twiddle *)

TwTT(m, t) == IF t < m THEN t ELSE IF t < 2 * m THEN t - m ELSE t - 2 * m
TwMult(m, t) == IF t < m THEN TOne ELSE IF t < 2 * m THEN OMEGA ELSE OMEGA2

RECURSIVE TwCopy(_, _, _, _, _)
TwCopy(mem, p, m, to, j) ==
    IF j >= m \/ Len(mem) = 0 THEN mem
    ELSE TwCopy(Wr(mem, to + j, Rd(mem, p + j)), p, m, to, j + 1)

RECURSIVE TwLow(_, _, _, _, _, _, _)
TwLow(mem, p, m, tt, mult, to, j) ==
    IF j >= tt \/ Len(mem) = 0 THEN mem
    ELSE TwLow(Wr(mem, to + j, TMul(TMul(Rd(mem, p + m - tt + j), OMEGA), mult)),
               p, m, tt, mult, to, j + 1)

RECURSIVE TwHigh(_, _, _, _, _, _, _)
TwHigh(mem, p, m, tt, mult, to, j) ==
    IF j >= m \/ Len(mem) = 0 THEN mem
    ELSE TwHigh(Wr(mem, to + j, TMul(Rd(mem, p + j - tt), mult)),
                p, m, tt, mult, to, j + 1)

RECURSIVE TwLowNoFold(_, _, _, _, _, _, _)
TwLowNoFold(mem, p, m, tt, mult, to, j) ==
    IF j >= tt \/ Len(mem) = 0 THEN mem
    ELSE TwLowNoFold(Wr(mem, to + j, TMul(Rd(mem, p + m - tt + j), mult)),
                     p, m, tt, mult, to, j + 1)

TwiddleNoFold(mem, p, m, t, to) ==
    IF t = 0 \/ t = 3 * m THEN TwCopy(mem, p, m, to, 0)
    ELSE TwHigh(TwLowNoFold(mem, p, m, TwTT(m, t), TwMult(m, t), to, 0),
                p, m, TwTT(m, t), TwMult(m, t), to, TwTT(m, t))
Twiddle(mem, p, m, t, to) ==
    IF t = 0 \/ t = 3 * m THEN TwCopy(mem, p, m, to, 0)
    ELSE TwHigh(TwLow(mem, p, m, TwTT(m, t), TwMult(m, t), to, 0),
                p, m, TwTT(m, t), TwMult(m, t), to, TwTT(m, t))

---------------------------------------------------------------------------
(* Conv64::fftdif and Conv64::fftdit.  `tmp` is the offset of the member   *)
(* Conv64::tmp, the shared scratch of 3m cells.                            *)

\* The body of the j loop of fftdif: the butterfly of cell j of blocks
\* i, i + rr, i + 2rr.
DifCell(mem, p, m, pos1, pos2, tmp, i, j) ==
    LET m1 == Wr(mem, tmp + j,
                 TAdd(TAdd(Rd(mem, p + i * m + j), Rd(mem, p + pos1 + i * m + j)),
                      Rd(mem, p + pos2 + i * m + j)))
        m2 == Wr(m1, tmp + m + j,
                 TAdd(TAdd(Rd(m1, p + i * m + j),
                           TMul(OMEGA, Rd(m1, p + pos1 + i * m + j))),
                      TMul(OMEGA2, Rd(m1, p + pos2 + i * m + j))))
        m3 == Wr(m2, tmp + 2 * m + j,
                 TAdd(TAdd(Rd(m2, p + i * m + j),
                           TMul(OMEGA2, Rd(m2, p + pos1 + i * m + j))),
                      TMul(OMEGA, Rd(m2, p + pos2 + i * m + j))))
    IN  Wr(m3, p + i * m + j, Rd(m3, tmp + j))

RECURSIVE DifCells(_, _, _, _, _, _, _, _)
DifCells(mem, p, m, pos1, pos2, tmp, i, j) ==
    IF j >= m \/ Len(mem) = 0 THEN mem
    ELSE DifCells(DifCell(mem, p, m, pos1, pos2, tmp, i, j),
                  p, m, pos1, pos2, tmp, i, j + 1)

DifExp1(m, r, i) == (3 * i * m) \div r
DifExp2Copied(m, r, i) == (3 * i * m) \div r
DifExp2(m, r, i) == (6 * i * m) \div r

\* The i loop of fftdif.
RECURSIVE DifBlocks(_, _, _, _, _, _)
DifBlocks(mem, p, m, r, tmp, i) ==
    LET rr == r \div 3
        pos1 == m * rr
        pos2 == 2 * m * rr
    IN  IF i >= rr \/ Len(mem) = 0 THEN mem
        ELSE DifBlocks(
                Twiddle(
                    Twiddle(DifCells(mem, p, m, pos1, pos2, tmp, i, 0),
                            tmp + m, m, DifExp1(m, r, i), p + pos1 + i * m),
                    tmp + 2 * m, m, DifExp2(m, r, i), p + pos2 + i * m),
                p, m, r, tmp, i + 1)

RECURSIVE FftDif(_, _, _, _, _)
FftDif(mem, p, m, r, tmp) ==
    IF r = 1 THEN mem
    ELSE LET rr == r \div 3
             pos1 == m * rr
             pos2 == 2 * m * rr
         IN  FftDif(FftDif(FftDif(DifBlocks(mem, p, m, r, tmp, 0), p, m, rr, tmp),
                           p + pos1, m, rr, tmp),
                    p + pos2, m, rr, tmp)

\* The body of the j loop of fftdit.
DitCell(mem, p, m, pos1, pos2, tmp, i, j) ==
    LET m1 == Wr(mem, tmp + j, Rd(mem, p + i * m + j))
        m2 == Wr(m1, p + i * m + j,
                 TAdd(TAdd(Rd(m1, tmp + j), Rd(m1, tmp + m + j)),
                      Rd(m1, tmp + 2 * m + j)))
        m3 == Wr(m2, p + i * m + pos1 + j,
                 TAdd(TAdd(Rd(m2, tmp + j), TMul(OMEGA2, Rd(m2, tmp + m + j))),
                      TMul(OMEGA, Rd(m2, tmp + 2 * m + j))))
    IN  Wr(m3, p + i * m + pos2 + j,
           TAdd(TAdd(Rd(m3, tmp + j), TMul(OMEGA, Rd(m3, tmp + m + j))),
                TMul(OMEGA2, Rd(m3, tmp + 2 * m + j))))

RECURSIVE DitCells(_, _, _, _, _, _, _, _)
DitCells(mem, p, m, pos1, pos2, tmp, i, j) ==
    IF j >= m \/ Len(mem) = 0 THEN mem
    ELSE DitCells(DitCell(mem, p, m, pos1, pos2, tmp, i, j),
                  p, m, pos1, pos2, tmp, i, j + 1)

DitExp1Plus(m, r, i) == 3 * m + (3 * i * m) \div r
DitExp1(m, r, i) == 3 * m - (3 * i * m) \div r
DitExp2(m, r, i) == 3 * m - (6 * i * m) \div r

\* The i loop of fftdit.
RECURSIVE DitBlocks(_, _, _, _, _, _)
DitBlocks(mem, p, m, r, tmp, i) ==
    LET rr == r \div 3
        pos1 == m * rr
        pos2 == 2 * m * rr
    IN  IF i >= rr \/ Len(mem) = 0 THEN mem
        ELSE DitBlocks(
                DitCells(
                    Twiddle(
                        Twiddle(mem, p + pos1 + i * m, m, DitExp1(m, r, i), tmp + m),
                        p + pos2 + i * m, m, DitExp2(m, r, i), tmp + 2 * m),
                    p, m, pos1, pos2, tmp, i, 0),
                p, m, r, tmp, i + 1)

RECURSIVE FftDit(_, _, _, _, _)
FftDit(mem, p, m, r, tmp) ==
    IF r = 1 THEN mem
    ELSE LET rr == r \div 3
             pos1 == m * rr
             pos2 == 2 * m * rr
         IN  DitBlocks(
                FftDit(FftDit(FftDit(mem, p, m, rr, tmp), p + pos1, m, rr, tmp),
                       p + pos2, m, rr, tmp),
                p, m, r, tmp, 0)

---------------------------------------------------------------------------
(* Conv64::mul: the product in T[x]/(x^n - omega) *)

RECURSIVE MulBlockFrom(_, _)
MulBlockFrom(m, n) == IF m * m < n THEN MulBlockFrom(3 * m, n) ELSE m
\* uint64_t m = 1; while (m*m < n) m *= 3;
RECURSIVE MulBlockInclusiveFrom(_, _)
MulBlockInclusiveFrom(m, n) ==
    IF m * m <= n THEN MulBlockInclusiveFrom(3 * m, n) ELSE m
MulBlockInclusive(n) == MulBlockInclusiveFrom(1, n)
MulBlock(n) == MulBlockFrom(1, n)

RECURSIVE InvPowFrom(_, _, _)
InvPowFrom(inv, i, r) ==
    IF i < r THEN InvPowFrom(TMulAssign(inv, INV3), 3 * i, r) ELSE inv
InvPowShort(r) == InvPowFrom(TOne, 3, r)
\* T inv = 1; for (i = 1; i < r; i *= 3) inv *= INV3;
InvPow(r) == InvPowFrom(TOne, 1, r)

RECURSIVE MulBaseLow(_, _, _, _, _, _, _)
MulBaseLow(mem, p, q, n, to, i, j) ==
    IF j >= n - i \/ Len(mem) = 0 THEN mem
    ELSE MulBaseLow(
            Wr(mem, to + i + j,
               TAddAssign(Rd(mem, to + i + j), TMul(Rd(mem, p + i), Rd(mem, q + j)))),
            p, q, n, to, i, j + 1)

RECURSIVE MulBaseHigh(_, _, _, _, _, _, _)
MulBaseHigh(mem, p, q, n, to, i, j) ==
    IF j >= n \/ Len(mem) = 0 THEN mem
    ELSE MulBaseHigh(
            Wr(mem, to + i + j - n,
               TAddAssign(Rd(mem, to + i + j - n),
                          TMul(TMul(Rd(mem, p + i), Rd(mem, q + j)), OMEGA))),
            p, q, n, to, i, j + 1)

RECURSIVE MulBaseRows(_, _, _, _, _, _)
MulBaseRows(mem, p, q, n, to, i) ==
    IF i >= n \/ Len(mem) = 0 THEN mem
    ELSE MulBaseRows(
            MulBaseHigh(MulBaseLow(mem, p, q, n, to, i, 0), p, q, n, to, i, n - i),
            p, q, n, to, i + 1)

\* The grade-school branch (n <= 27).
MulBase(mem, p, q, n, to) ==
    MulBaseRows(ClearCells(mem, to, n), p, q, n, to, 0)

SubstExpA(m, r, i) == (m \div r) * i
SubstExpB(m, r, i) == ((2 * m) \div r) * i

\* for (i < r) { twiddle(p + m*i, m, m/r*i, to + m*i);
\*               twiddle(q + m*i, m, m/r*i, to + n + m*i); }
RECURSIVE MulSubstA(_, _, _, _, _, _, _, _)
MulSubstA(mem, p, q, n, m, r, to, i) ==
    IF i >= r \/ Len(mem) = 0 THEN mem
    ELSE MulSubstA(
            Twiddle(Twiddle(mem, p + m * i, m, SubstExpA(m, r, i), to + m * i),
                    q + m * i, m, SubstExpA(m, r, i), to + n + m * i),
            p, q, n, m, r, to, i + 1)

\* for (i < r) twiddle(to + 2*n + m*i, m, 3*m - e(i), dst + m*i);
RECURSIVE MulBackA(_, _, _, _, _, _)
MulBackA(mem, n, m, r, to, i) ==
    IF i >= r \/ Len(mem) = 0 THEN mem
    ELSE MulBackA(
            Twiddle(mem, to + 2 * n + m * i, m, 3 * m - SubstExpA(m, r, i),
                    to + n + m * i),
            n, m, r, to, i + 1)

RECURSIVE MulBackB(_, _, _, _, _, _, _)
MulBackB(mem, q, n, m, r, to, i) ==
    IF i >= r \/ Len(mem) = 0 THEN mem
    ELSE MulBackB(
            Twiddle(mem, to + 2 * n + m * i, m, 3 * m - SubstExpB(m, r, i),
                    q + m * i),
            q, n, m, r, to, i + 1)

\* for (j < m) { p[m*i + j] = p[m*i + j].conj(); q[m*i + j] = q[m*i + j].conj(); }
RECURSIVE MulConjCells(_, _, _, _, _, _)
MulConjCells(mem, p, q, m, i, j) ==
    IF j >= m \/ Len(mem) = 0 THEN mem
    ELSE LET m1 == Wr(mem, p + m * i + j, Conj(Rd(mem, p + m * i + j)))
         IN  MulConjCells(Wr(m1, q + m * i + j, Conj(Rd(m1, q + m * i + j))),
                          p, q, m, i, j + 1)

\* The loop that conjugates p and q and substitutes y -> x^(2m/r) y.
RECURSIVE MulSubstB(_, _, _, _, _, _, _)
MulSubstB(mem, p, q, m, r, to, i) ==
    IF i >= r \/ Len(mem) = 0 THEN mem
    ELSE MulSubstB(
            Twiddle(Twiddle(MulConjCells(mem, p, q, m, i, 0),
                            p + m * i, m, SubstExpB(m, r, i), to + m * i),
                    q + m * i, m, SubstExpB(m, r, i), p + m * i),
            p, q, m, r, to, i + 1)

CrtLow(a, b) ==
    TAdd(TMul(TSub(TOne, OMEGA), a), TMul(TSub(TOne, OMEGA2), Conj(b)))
CrtHigh(a, b) == TMul(TSub(OMEGA2, OMEGA), TSub(a, Conj(b)))
CrtWrapSame(a, b) == TMul(TSub(OMEGA2, OMEGA), TSub(a, Conj(b)))
CrtWrap(a, b) == TMul(TSub(TOne, OMEGA2), TSub(a, Conj(b)))

\* The body of the CRT loop of mul: a = to[n + i*m + j], b = q[i*m + j].
MulCrtCell(mem, q, n, m, to, i, j) ==
    LET m1 == Wr(mem, to + i * m + j,
                 TAddAssign(Rd(mem, to + i * m + j),
                            CrtLow(Rd(mem, to + n + i * m + j), Rd(mem, q + i * m + j))))
    IN  IF i * m + m + j < n
        THEN Wr(m1, to + i * m + m + j,
                TAddAssign(Rd(m1, to + i * m + m + j),
                           CrtHigh(Rd(m1, to + n + i * m + j), Rd(m1, q + i * m + j))))
        ELSE Wr(m1, to + i * m + m + j - n,
                TAddAssign(Rd(m1, to + i * m + m + j - n),
                           CrtWrap(Rd(m1, to + n + i * m + j), Rd(m1, q + i * m + j))))

RECURSIVE MulCrtCells(_, _, _, _, _, _, _)
MulCrtCells(mem, q, n, m, to, i, j) ==
    IF j >= m \/ Len(mem) = 0 THEN mem
    ELSE MulCrtCells(MulCrtCell(mem, q, n, m, to, i, j), q, n, m, to, i, j + 1)

RECURSIVE MulCrtBlocks(_, _, _, _, _, _, _)
MulCrtBlocks(mem, q, n, m, r, to, i) ==
    IF i >= r \/ Len(mem) = 0 THEN mem
    ELSE MulCrtBlocks(MulCrtCells(mem, q, n, m, to, i, 0), q, n, m, r, to, i + 1)

RECURSIVE Mul(_, _, _, _, _, _)

\* for (i < r) mul(a + m*i, b + m*i, m, to + 2*n + m*i);
RECURSIVE MulPointwise(_, _, _, _, _, _, _, _, _)
MulPointwise(mem, a, b, n, m, r, to, tmp, i) ==
    IF i >= r \/ Len(mem) = 0 THEN mem
    ELSE MulPointwise(Mul(mem, a + m * i, b + m * i, m, to + 2 * n + m * i, tmp),
                      a, b, n, m, r, to, tmp, i + 1)

MulRecursive(mem, p, q, n, to, tmp) ==
    LET m == MulBlock(n)
        r == n \div m
        inv == InvPow(r)
        \* the product in (T[x]/(x^m - omega))[y]/(y^r - omega)
        a1 == MulSubstA(mem, p, q, n, m, r, to, 0)
        a2 == FftDif(a1, to, m, r, tmp)
        a3 == FftDif(a2, to + n, m, r, tmp)
        a4 == MulPointwise(a3, to, to + n, n, m, r, to, tmp, 0)
        a5 == FftDit(a4, to + 2 * n, m, r, tmp)
        a6 == ScaleCells(a5, to + 2 * n, n, inv)
        a7 == MulBackA(a6, n, m, r, to, 0)
        \* the product in (T[x]/(x^m - omega^2))[y]/(y^r - omega)
        b1 == MulSubstB(a7, p, q, m, r, to, 0)
        b2 == FftDif(b1, to, m, r, tmp)
        b3 == FftDif(b2, p, m, r, tmp)
        b4 == MulPointwise(b3, to, p, n, m, r, to, tmp, 0)
        b5 == FftDit(b4, to + 2 * n, m, r, tmp)
        b6 == ScaleCells(b5, to + 2 * n, n, inv)
        b7 == MulBackB(b6, q, n, m, r, to, 0)
        \* CRT, and y = x^m
        c1 == ClearCells(b7, to, n)
        c2 == MulCrtBlocks(c1, q, n, m, r, to, 0)
        \* (the phases, evaluated in program order)
        ran == /\ Len(a1) > 0 /\ Len(a2) > 0 /\ Len(a3) > 0 /\ Len(a4) > 0
               /\ Len(a5) > 0 /\ Len(a6) > 0 /\ Len(a7) > 0
               /\ Len(b1) > 0 /\ Len(b2) > 0 /\ Len(b3) > 0 /\ Len(b4) > 0
               /\ Len(b5) > 0 /\ Len(b6) > 0 /\ Len(b7) > 0
               /\ Len(c1) > 0 /\ Len(c2) > 0
    IN  IF ran THEN ScaleCells(c2, to, n, INV3) ELSE mem

Mul(mem, p, q, n, to, tmp) ==
    IF n <= 27 THEN MulBase(mem, p, q, n, to)
    ELSE MulRecursive(mem, p, q, n, to, tmp)

---------------------------------------------------------------------------
(* Conv64::multiply_cyclic_raw: the product in R[x]/(x^n - 1).             *)
(* buf = pp[n] | qq[n] | to[n + 3m] | tmp[3m]                              *)

RECURSIVE CyclicBlockFrom(_, _)
CyclicBlockFrom(m, n) == IF m * m <= n THEN CyclicBlockFrom(3 * m, n) ELSE m
\* uint64_t m = 1; while (m*m <= n) m *= 3; m /= 3;
CyclicBlock(n) == CyclicBlockFrom(1, n) \div 3

\* new T[3*n + 6*m]
CyclicBufLen(n) == 3 * n + 6 * CyclicBlock(n)

CyclicLocalsTight(n) ==
    LET m == CyclicBlock(n)
        r == n \div m
    IN  [m |-> m, r |-> r, inv |-> InvPow(r),
         pp |-> 0, qq |-> n, to |-> 2 * n, tmp |-> 3 * n + m]
\* The locals of the call: sizes, inv and the pointers into buf.
CyclicLocals(n) ==
    LET m == CyclicBlock(n)
        r == n \div m
    IN  [m |-> m, r |-> r, inv |-> InvPow(r),
         pp |-> 0, qq |-> n, to |-> 2 * n, tmp |-> 3 * n + 3 * m]

\* T *buf = new T[3*n + 6*m]; pp[i] = p[i]; qq[i] = q[i];
CyclicWiden(p, q, n) ==
    [k \in 1 .. CyclicBufLen(n) |->
        IF k <= n THEN TOfWord(p[k])
        ELSE IF k <= 2 * n THEN TOfWord(q[k - n])
        ELSE TZero] \o <<>>

CyclicForward(mem, n, l) ==
    LET f1 == FftDif(mem, l.pp, l.m, l.r, l.tmp)
    IN  IF Len(f1) > 0 THEN FftDif(f1, l.qq, l.m, l.r, l.tmp) ELSE mem

\* for (i < r) mul(pp + i*m, qq + i*m, m, to + i*m);
RECURSIVE CyclicPointwise(_, _, _, _)
CyclicPointwise(mem, n, l, i) ==
    IF i >= l.r \/ Len(mem) = 0 THEN mem
    ELSE CyclicPointwise(
            Mul(mem, l.pp + i * l.m, l.qq + i * l.m, l.m, l.to + i * l.m, l.tmp),
            n, l, i + 1)

\* fftdit(to, m, r); for (i < n) pp[i] = to[i]*inv;
CyclicInverse(mem, n, l) ==
    LET g == FftDit(mem, l.to, l.m, l.r, l.tmp)
    IN  [k \in 1 .. Len(g) |->
            IF l.pp < k /\ k <= l.pp + n THEN TMul(g[k - l.pp + l.to], l.inv)
            ELSE g[k]] \o <<>>

CycWrapOmega(a) == TMul(TSub(TOne, OMEGA2), TSub(a, Conj(a)))
\* the wrap branch of the top-level lift: the same factor as the other branch
CycWrap(a) == TMul(TSub(OMEGA2, OMEGA), TSub(a, Conj(a)))

\* The body of the CRT loop of multiply_cyclic_raw.
CycLiftCell(mem, n, l, i, j) ==
    LET m == l.m
        m1 == Wr(mem, l.to + i * m + j,
                 TAddAssign(Rd(mem, l.to + i * m + j),
                            CrtLow(Rd(mem, l.pp + i * m + j),
                                   Rd(mem, l.pp + i * m + j))))
    IN  IF i * m + m + j < n
        THEN Wr(m1, l.to + i * m + m + j,
                TAddAssign(Rd(m1, l.to + i * m + m + j),
                           CrtHigh(Rd(m1, l.pp + i * m + j),
                                   Rd(m1, l.pp + i * m + j))))
        ELSE Wr(m1, l.to + i * m + m + j - n,
                TAddAssign(Rd(m1, l.to + i * m + m + j - n),
                           CycWrap(Rd(m1, l.pp + i * m + j))))

RECURSIVE CycLiftCells(_, _, _, _, _)
CycLiftCells(mem, n, l, i, j) ==
    IF j >= l.m \/ Len(mem) = 0 THEN mem
    ELSE CycLiftCells(CycLiftCell(mem, n, l, i, j), n, l, i, j + 1)

RECURSIVE CycLiftBlocks(_, _, _, _)
CycLiftBlocks(mem, n, l, i) ==
    IF i >= l.r \/ Len(mem) = 0 THEN mem
    ELSE CycLiftBlocks(CycLiftCells(mem, n, l, i, 0), n, l, i + 1)

\* for (i < n) to[i] = 0; and the CRT loop
CyclicLift(mem, n, l) == CycLiftBlocks(ClearCells(mem, l.to, n), n, l, 0)

\* for (i < n) target[i] = (to[i]*INV3).a;
CyclicExtract(mem, n, l) ==
    [i \in 1 .. n |-> TMul(mem[l.to + i], INV3)[1]] \o <<>>

\* The whole call, as multiply uses it.
MultiplyCyclicRaw(p, q, n) ==
    CyclicExtract(
        CyclicLift(
            CyclicInverse(
                CyclicPointwise(
                    CyclicForward(CyclicWiden(p, q, n), n, CyclicLocals(n)),
                    n, CyclicLocals(n), 0),
                n, CyclicLocals(n)),
            n, CyclicLocals(n)),
        n, CyclicLocals(n))

---------------------------------------------------------------------------
(* Conv64::multiply *)

\* int64_t <-> uint64_t: the same bits
ToUnsigned(x) == x % Modulus
ToSigned(u) == IF u >= Modulus \div 2 THEN u - Modulus ELSE u

\* vector::resize: truncate, or pad with zeros
Resize(v, len) == [i \in 1 .. len |-> IF i <= Len(v) THEN v[i] ELSE 0] \o <<>>

\* p.size() + q.size() - 1 in uint64_t arithmetic: the bound of the while
\* loop, and the size of the result
GrowBoundShort(p, q) == (Len(p) + Len(q) - 2) % Modulus
GrowBound(p, q) == (Len(p) + Len(q) - 1) % Modulus
ResultSize(p, q) == (Len(p) + Len(q) - 1) % Modulus

---------------------------------------------------------------------------
(* SpecCalls: the calls one multiply_cyclic_raw(p, q, n, target) makes, at *)
(* every depth, with their sizes, exponents and pointers but without the   *)
(* data.  `call` is a call of the tree and `stack` the recursive mul calls *)
(* that enclose it; a step goes from a call to one of the calls its body   *)
(* makes, so the reachable states are exactly the calls of the run.  A     *)
(* pointer is an address in buf together with, for each enclosing mul      *)
(* frame, the parameter of that frame it was derived from ("p", "q", "to") *)
(* or "tmp" for the member Conv64::tmp.                                    *)

Pow3(k) == 3^k
RECURSIVE Log3(_)
Log3(n) == IF n <= 1 THEN 0 ELSE 1 + Log3(n \div 3)
IsPow3(n) == n = Pow3(Log3(n))

NullPtr == [addr |-> 0, org |-> <<>>]
\* q + k, inside a frame that is not a mul frame
Off(q, k) == [q EXCEPT !.addr = @ + k]
\* q + k, inside a mul frame, q being its parameter `tag`
Via(q, k, tag) == [addr |-> q.addr + k, org |-> Append(q.org, tag)]
\* tmp + k, inside depth enclosing mul frames
TmpPtr(l, depth, k) == [addr |-> l.tmp + k, org |-> [i \in 1 .. depth |-> "tmp"]]

MkCall(fn, p, q, to, n, m, r, t) ==
    [fn |-> fn, p |-> p, q |-> q, to |-> to, n |-> n, m |-> m, r |-> r, t |-> t]
CallTwiddle(p, m, t, to) == MkCall("twiddle", p, NullPtr, to, 0, m, 0, t)
CallFft(fn, p, m, r) == MkCall(fn, p, NullPtr, NullPtr, 0, m, r, 0)
\* a call of mul, with the m and r its recursive branch computes
CallMul(p, q, n, to) ==
    MkCall("mul", p, q, to, n,
           IF n <= 27 THEN 0 ELSE MulBlock(n),
           IF n <= 27 THEN 0 ELSE n \div MulBlock(n), 0)
CallCyclic(n) ==
    LET l == CyclicLocals(n) IN
    MkCall("cyclic", [addr |-> l.pp, org |-> <<>>], [addr |-> l.qq, org |-> <<>>],
           [addr |-> l.to, org |-> <<>>], n, l.m, l.r, 0)

\* The calls the body of fftdif(p, m, r) makes.
FftDifCalls(c, l, depth) ==
    IF c.r = 1 THEN {}
    ELSE LET rr == c.r \div 3
             pos1 == c.m * rr
             pos2 == 2 * c.m * rr
         IN  {CallTwiddle(TmpPtr(l, depth, c.m), c.m, DifExp1(c.m, c.r, i),
                          Off(c.p, pos1 + i * c.m)) : i \in 0 .. rr - 1}
             \cup
             {CallTwiddle(TmpPtr(l, depth, 2 * c.m), c.m, DifExp2(c.m, c.r, i),
                          Off(c.p, pos2 + i * c.m)) : i \in 0 .. rr - 1}
             \cup
             {CallFft("fftdif", Off(c.p, pos), c.m, rr) : pos \in {0, pos1, pos2}}

\* The calls the body of fftdit(p, m, r) makes.
FftDitCalls(c, l, depth) ==
    IF c.r = 1 THEN {}
    ELSE LET rr == c.r \div 3
             pos1 == c.m * rr
             pos2 == 2 * c.m * rr
         IN  {CallFft("fftdit", Off(c.p, pos), c.m, rr) : pos \in {0, pos1, pos2}}
             \cup
             {CallTwiddle(Off(c.p, pos1 + i * c.m), c.m, DitExp1(c.m, c.r, i),
                          TmpPtr(l, depth, c.m)) : i \in 0 .. rr - 1}
             \cup
             {CallTwiddle(Off(c.p, pos2 + i * c.m), c.m, DitExp2(c.m, c.r, i),
                          TmpPtr(l, depth, 2 * c.m)) : i \in 0 .. rr - 1}

\* The calls the body of mul(p, q, n, to) makes (none when n <= 27).
MulCalls(c) ==
    IF c.n <= 27 THEN {}
    ELSE LET n == c.n
             m == c.m
             r == c.r
         IN  UNION {
                {CallTwiddle(Via(c.p, m * i, "p"), m, SubstExpA(m, r, i),
                             Via(c.to, m * i, "to")),
                 CallTwiddle(Via(c.q, m * i, "q"), m, SubstExpA(m, r, i),
                             Via(c.to, n + m * i, "to")),
                 CallMul(Via(c.to, m * i, "to"), Via(c.to, n + m * i, "to"), m,
                         Via(c.to, 2 * n + m * i, "to")),
                 CallTwiddle(Via(c.to, 2 * n + m * i, "to"), m,
                             3 * m - SubstExpA(m, r, i), Via(c.to, n + m * i, "to")),
                 CallTwiddle(Via(c.p, m * i, "p"), m, SubstExpB(m, r, i),
                             Via(c.to, m * i, "to")),
                 CallTwiddle(Via(c.q, m * i, "q"), m, SubstExpB(m, r, i),
                             Via(c.p, m * i, "p")),
                 CallMul(Via(c.to, m * i, "to"), Via(c.p, m * i, "p"), m,
                         Via(c.to, 2 * n + m * i, "to")),
                 CallTwiddle(Via(c.to, 2 * n + m * i, "to"), m,
                             3 * m - SubstExpB(m, r, i), Via(c.q, m * i, "q"))}
                : i \in 0 .. r - 1}
             \cup
             {CallFft("fftdif", Via(c.to, 0, "to"), m, r),
              CallFft("fftdif", Via(c.to, n, "to"), m, r),
              CallFft("fftdit", Via(c.to, 2 * n, "to"), m, r),
              CallFft("fftdif", Via(c.p, 0, "p"), m, r)}

\* The calls the body of multiply_cyclic_raw makes.
CyclicCalls(c) ==
    {CallFft("fftdif", c.p, c.m, c.r), CallFft("fftdif", c.q, c.m, c.r),
     CallFft("fftdit", c.to, c.m, c.r)}
    \cup
    {CallMul(Off(c.p, i * c.m), Off(c.q, i * c.m), c.m, Off(c.to, i * c.m))
        : i \in 0 .. c.r - 1}

Callees(c, l, depth) ==
    IF c.fn = "cyclic" THEN CyclicCalls(c)
    ELSE IF c.fn = "mul" THEN MulCalls(c)
    ELSE IF c.fn = "fftdif" THEN FftDifCalls(c, l, depth)
    ELSE IF c.fn = "fftdit" THEN FftDitCalls(c, l, depth)
    ELSE {}

\* The cells the body of a call reads or writes itself: [addr, addr + len),
\* with the origin of the pointer used (for a mul call, its own parameter
\* is the last origin).
Range(q, len) == [addr |-> q.addr, len |-> len, org |-> q.org]
Accesses(c, l, depth) ==
    IF c.fn = "twiddle" THEN {Range(c.p, c.m), Range(c.to, c.m)}
    ELSE IF c.fn \in {"fftdif", "fftdit"} THEN
        IF c.r = 1 THEN {}
        ELSE {Range(c.p, c.m * c.r), Range(TmpPtr(l, depth, 0), 3 * c.m)}
    ELSE IF c.fn = "mul" THEN
        {Range(Via(c.p, 0, "p"), c.n), Range(Via(c.q, 0, "q"), c.n),
         Range(Via(c.to, 0, "to"), IF c.n <= 27 THEN c.n ELSE 3 * c.n)}
    ELSE {Range(c.p, c.n), Range(c.q, c.n), Range(c.to, c.n)}

---------------------------------------------------------------------------
(* Input arrays *)

\* The seed-th generated array of len T cells (seed 0 is dense and has no
\* two equal cells for len < Modulus).
GenT(seed, len) ==
    [i \in 1 .. len |->
        MkT((seed + 1) * i * i + 7 * seed + i + 2,
            IF seed % 2 = 0 THEN 5 * i + 3 * seed + 1 ELSE (i + seed) % 3)] \o <<>>

---------------------------------------------------------------------------
(* SpecTwiddle: twiddle by s, then by t, against one twiddle by s + t.     *)
(* buf = src[m] | first[m] | second[m] | direct[m]                         *)

InitTwiddle ==
    /\ pc = "start"
    /\ \E m \in 1 .. MaxBlock : \E s \in 0 .. 3 * m : \E t \in 0 .. 3 * m :
        \E seed \in 0 .. MaxSeed :
            /\ arg = [m |-> m, s |-> s, t |-> t]
            /\ buf = GenT(seed, m) \o Zeros(3 * m)
    /\ loc = <<>>
    /\ out = <<>>
    /\ call = <<>>
    /\ stack = <<>>

TwiddleFirst ==
    /\ pc = "start"
    /\ buf' = Twiddle(buf, 0, arg.m, arg.s, arg.m)
    /\ pc' = "first"
    /\ UNCHANGED <<arg, loc, out, call, stack>>

TwiddleSecond ==
    /\ pc = "first"
    /\ buf' = Twiddle(buf, arg.m, arg.m, arg.t, 2 * arg.m)
    /\ pc' = "second"
    /\ UNCHANGED <<arg, loc, out, call, stack>>

TwiddleDirect ==
    /\ pc = "second"
    /\ buf' = Twiddle(buf, 0, arg.m, (arg.s + arg.t) % (3 * arg.m), 3 * arg.m)
    /\ pc' = "done"
    /\ UNCHANGED <<arg, loc, out, call, stack>>

NextTwiddle == TwiddleFirst \/ TwiddleSecond \/ TwiddleDirect

SpecTwiddle == InitTwiddle /\ [][NextTwiddle]_vars

\* C6: twiddling a block by s and the result by t gives exactly the block
\* that one twiddle by (s + t) mod 3m gives, for all s, t in [0, 3m].
C6_TwiddleComposes ==
    pc = "done" =>
        Block(buf, 2 * arg.m, arg.m) = Block(buf, 3 * arg.m, arg.m)

\* A composition that wraps past 3m, with both steps shifting and folding.
C6_Witness ==
    /\ pc = "done"
    /\ arg.m = 3 /\ arg.s = 4 /\ arg.t = 7
    /\ Block(buf, 2 * arg.m, arg.m) # Block(buf, 0, arg.m)
    /\ Block(buf, 2 * arg.m, arg.m) = Block(buf, 3 * arg.m, arg.m)

---------------------------------------------------------------------------
(* SpecFFT: fftdif followed by fftdit on a buffer of m*r cells.            *)
(* buf = p[m*r] | tmp[3m]; arg.p keeps the input.                          *)

\* <<m, r>>: powers of 3 with r dividing 3m.
FftShapes ==
    {<<1, 1>>, <<1, 3>>, <<3, 1>>, <<3, 3>>, <<3, 9>>,
     <<9, 3>>, <<9, 9>>, <<9, 27>>}

InitFFT ==
    /\ pc = "start"
    /\ \E sh \in FftShapes : \E seed \in 0 .. MaxSeed :
            /\ arg = [m |-> sh[1], r |-> sh[2], p |-> GenT(seed, sh[1] * sh[2])]
            /\ buf = GenT(seed, sh[1] * sh[2]) \o Zeros(3 * sh[1])
            /\ loc = [tmp |-> sh[1] * sh[2]]
    /\ out = <<>>
    /\ call = <<>>
    /\ stack = <<>>

RunDif ==
    /\ pc = "start"
    /\ buf' = FftDif(buf, 0, arg.m, arg.r, loc.tmp)
    /\ pc' = "transformed"
    /\ UNCHANGED <<arg, loc, out, call, stack>>

RunDit ==
    /\ pc = "transformed"
    /\ buf' = FftDit(buf, 0, arg.m, arg.r, loc.tmp)
    /\ pc' = "done"
    /\ UNCHANGED <<arg, loc, out, call, stack>>

NextFFT == RunDif \/ RunDit

SpecFFT == InitFFT /\ [][NextFFT]_vars

TimesNat(k, u) == MkT(k * u[1], k * u[2])

\* C5: fftdif then fftdit leaves every cell equal to r times its original
\* value.
C5_DitInvertsDif ==
    pc = "done" =>
        \A k \in 1 .. arg.m * arg.r : buf[k] = TimesNat(arg.r, arg.p[k])

\* A three-level transform of blocks that need real twiddles, whose
\* forward transform differs from the input.
C5_Witness ==
    /\ pc = "done"
    /\ arg.m = 9 /\ arg.r = 27
    /\ \E k \in 1 .. arg.m * arg.r : buf[k] # arg.p[k]
    /\ \A k \in 1 .. arg.m * arg.r : buf[k] = TimesNat(arg.r, arg.p[k])

---------------------------------------------------------------------------
(* SpecMul: one call mul(p, q, n, to).                                     *)
(* buf = p[n] | q[n] | to[3n + 3m] | tmp[3m]; arg keeps the inputs.        *)

MulSizes == {1, 3, 9, 27, 81, 243}

\* Sum of F(i) over lo <= i < hi, in T.
RECURSIVE SumT(_, _, _)
SumT(F(_), lo, hi) ==
    IF hi <= lo THEN TZero
    ELSE IF hi = lo + 1 THEN F(lo)
    ELSE LET mid == (lo + hi) \div 2 IN TAdd(SumT(F, lo, mid), SumT(F, mid, hi))

\* Coefficient c of p*q mod (x^n - omega): the pairs with i + j = c, plus
\* omega times the pairs with i + j = c + n.
ProductModOmega(p, q, n, c) ==
    LET Term(i) ==
            IF i <= c THEN TMul(p[i + 1], q[c - i + 1])
            ELSE TMul(OMEGA, TMul(p[i + 1], q[c + n - i + 1]))
    IN  SumT(Term, 0, n)

InitMul ==
    /\ pc = "start"
    /\ \E n \in MulSizes : \E sp \in 0 .. MaxSeed : \E sq \in 0 .. MaxSeed :
        LET m == MulBlock(n) IN
            /\ arg = [n |-> n, p |-> GenT(sp, n), q |-> GenT(sq + 1, n)]
            /\ buf = GenT(sp, n) \o GenT(sq + 1, n) \o Zeros(3 * n + 6 * m)
            /\ loc = [to |-> 2 * n, tmp |-> 5 * n + 3 * m]
    /\ out = <<>>
    /\ call = <<>>
    /\ stack = <<>>

RunMul ==
    /\ pc = "start"
    /\ buf' = Mul(buf, 0, arg.n, arg.n, loc.to, loc.tmp)
    /\ pc' = "done"
    /\ UNCHANGED <<arg, loc, out, call, stack>>

NextMul == RunMul

SpecMul == InitMul /\ [][NextMul]_vars

\* C4: mul leaves in to[0..n) the product p*q reduced modulo x^n - omega,
\* on the grade-school branch and on the recursive FFT/CRT branch alike.
C4_MulIsProductModOmega ==
    pc = "done" =>
        \A c \in 0 .. arg.n - 1 :
            Rd(buf, loc.to + c) = ProductModOmega(arg.p, arg.q, arg.n, c)

\* A product on the recursive branch with m = 27 # r = 9, whose last
\* coefficient has a nonzero omega-component.
C4_Witness ==
    /\ pc = "done"
    /\ arg.n = 243 /\ MulBlock(arg.n) = 27
    /\ Rd(buf, loc.to + arg.n - 1)[2] # 0
    /\ Rd(buf, loc.to + arg.n - 1)
            = ProductModOmega(arg.p, arg.q, arg.n, arg.n - 1)

---------------------------------------------------------------------------
(* SpecCyclic: one call multiply_cyclic_raw(p, q, n, target), phase by     *)
(* phase.  arg keeps p, q, n; out is target.                               *)

CyclicSizes == {1, 3, 9, 27, 81, 243}

\* The seed-th generated array of len words.
GenW(seed, len) ==
    [i \in 1 .. len |->
        IF seed = 0 THEN (IF i = len THEN 1 ELSE 0)
        ELSE ((seed + 2) * i * i + 11 * seed + 3 * i) % Modulus] \o <<>>

InitCyclic ==
    /\ pc = "entry"
    /\ \E n \in CyclicSizes : \E sp \in 0 .. MaxSeed : \E sq \in 0 .. MaxSeed :
            arg = [n |-> n, p |-> GenW(sp, n), q |-> GenW((sq + 1) % (MaxSeed + 1), n)]
    /\ loc = <<>>
    /\ buf = <<>>
    /\ out = <<>>
    /\ call = <<>>
    /\ stack = <<>>

CycAlloc ==
    /\ pc = "entry"
    /\ loc' = CyclicLocals(arg.n)
    /\ buf' = CyclicWiden(arg.p, arg.q, arg.n)
    /\ pc' = "widened"
    /\ UNCHANGED <<arg, out, call, stack>>

CycForward ==
    /\ pc = "widened"
    /\ buf' = CyclicForward(buf, arg.n, loc)
    /\ pc' = "transformed"
    /\ UNCHANGED <<arg, loc, out, call, stack>>

CycPointwise ==
    /\ pc = "transformed"
    /\ buf' = CyclicPointwise(buf, arg.n, loc, 0)
    /\ pc' = "multiplied"
    /\ UNCHANGED <<arg, loc, out, call, stack>>

CycInverse ==
    /\ pc = "multiplied"
    /\ buf' = CyclicInverse(buf, arg.n, loc)
    /\ pc' = "inverted"
    /\ UNCHANGED <<arg, loc, out, call, stack>>

CycLift ==
    /\ pc = "inverted"
    /\ buf' = CyclicLift(buf, arg.n, loc)
    /\ pc' = "lifted"
    /\ UNCHANGED <<arg, loc, out, call, stack>>

\* the extraction loop, and delete[] buf
CycExtract ==
    /\ pc = "lifted"
    /\ out' = CyclicExtract(buf, arg.n, loc)
    /\ buf' = <<>>
    /\ pc' = "done"
    /\ UNCHANGED <<arg, loc, call, stack>>

NextCyclic ==
    CycAlloc \/ CycForward \/ CycPointwise \/ CycInverse \/ CycLift \/ CycExtract

SpecCyclic == InitCyclic /\ [][NextCyclic]_vars

\* Sum of F(i) over lo <= i < hi, in Z.
RECURSIVE SumZ(_, _, _)
SumZ(F(_), lo, hi) ==
    IF hi <= lo THEN 0
    ELSE IF hi = lo + 1 THEN F(lo)
    ELSE LET mid == (lo + hi) \div 2 IN SumZ(F, lo, mid) + SumZ(F, mid, hi)

\* Coefficient c of p*q mod (x^n - 1) in R: the pairs with (i + j) mod n = c.
CyclicProduct(p, q, n, c) ==
    LET Term(i) == (p[i + 1] * q[((c - i) % n) + 1]) % Modulus
    IN  SumZ(Term, 0, n) % Modulus

\* C3: multiply_cyclic_raw leaves in target the cyclic product of p and q,
\* for every n = 3^k, n = 1 included.
C3_CyclicProduct ==
    pc = "done" =>
        /\ Len(out) = arg.n
        /\ \A c \in 0 .. arg.n - 1 :
                out[c + 1] = CyclicProduct(arg.p, arg.q, arg.n, c)

\* A product of dense inputs whose wrap-around terms matter: the largest
\* size, with a result that differs from the product without wrap-around.
C3_Witness ==
    /\ pc = "done"
    /\ arg.n = 81
    /\ \E c \in 0 .. arg.n - 1 :
        LET Lin(i) == IF i <= c THEN (arg.p[i + 1] * arg.q[c - i + 1]) % Modulus ELSE 0
        IN  out[c + 1] # SumZ(Lin, 0, arg.n) % Modulus
    /\ \A c \in 0 .. arg.n - 1 :
            out[c + 1] = CyclicProduct(arg.p, arg.q, arg.n, c)

---------------------------------------------------------------------------
(* SpecLift: the calls of SpecCyclic, and calls of the smaller sizes taken *)
(* up after the inverse FFT with arbitrary T values in pp and in to.       *)

LiftSizes == {1, 3, 9, 27}

InitLiftAny ==
    /\ pc = "inverted"
    /\ \E n \in LiftSizes : \E seed \in 0 .. MaxSeed :
            /\ arg = [n |-> n, p |-> GenW(0, n), q |-> GenW(0, n)]
            /\ loc = CyclicLocals(n)
            /\ buf = GenT(seed, 2 * n) \o GenT(seed + 1, n + 6 * CyclicBlock(n))
    /\ out = <<>>
    /\ call = <<>>
    /\ stack = <<>>

InitLift == InitCyclic \/ InitLiftAny

SpecLift == InitLift /\ [][NextCyclic]_vars

\* C8: after the CRT-lift loop every to[i], i < n, has omega-component 0,
\* and so has to[i]*INV3, whatever T values pp held after the inverse FFT.
C8_LiftIsReal ==
    pc = "lifted" =>
        \A i \in 0 .. arg.n - 1 :
            /\ Rd(buf, loc.to + i)[2] = 0
            /\ TMul(Rd(buf, loc.to + i), INV3)[2] = 0

\* A lift whose wrap branch adds a nonzero term: a cell of the last block
\* of pp has a nonzero omega-component.
C8_Witness ==
    /\ pc = "lifted"
    /\ arg.n = 27
    /\ \E j \in 0 .. loc.m - 1 :
        /\ Rd(buf, loc.pp + arg.n - loc.m + j)[2] # 0
        /\ CycWrap(Rd(buf, loc.pp + arg.n - loc.m + j)) # TZero
        /\ Rd(buf, loc.to + j) # TZero
    /\ \A i \in 0 .. arg.n - 1 : Rd(buf, loc.to + i)[2] = 0

---------------------------------------------------------------------------
(* SpecMultiply: one call multiply(p, q) on vectors of 0 .. MaxLen signed  *)
(* coefficients.                                                           *)

\* The seed-th generated vector of len signed coefficients.
GenS(seed, len) == [i \in 1 .. len |-> ToSigned(GenW(seed, len + 1)[i + 1])] \o <<>>

InitMultiply ==
    /\ pc = "entry"
    /\ \E lp \in 0 .. MaxLen : \E lq \in 0 .. MaxLen :
        \E sp \in 0 .. MaxSeed : \E sq \in 0 .. MaxSeed :
            arg = [p |-> GenS(sp, lp), q |-> GenS(sq, lq)]
    /\ loc = <<>>
    /\ buf = <<>>
    /\ out = <<>>
    /\ call = <<>>
    /\ stack = <<>>

\* the copies into pp and qq; s = 1
MultConvert ==
    /\ pc = "entry"
    /\ loc' = [pp |-> [i \in 1 .. Len(arg.p) |-> ToUnsigned(arg.p[i])] \o <<>>,
               qq |-> [i \in 1 .. Len(arg.q) |-> ToUnsigned(arg.q[i])] \o <<>>,
               s |-> 1]
    /\ pc' = "sizing"
    /\ UNCHANGED <<arg, buf, out, call, stack>>

\* one iteration of while (s < p.size() + q.size() - 1) s *= 3;
MultGrow ==
    /\ pc = "sizing"
    /\ loc.s < GrowBound(arg.p, arg.q)
    /\ loc' = [loc EXCEPT !.s = (3 * loc.s) % Modulus]
    /\ UNCHANGED <<pc, arg, buf, out, call, stack>>

\* (uint64_t*)res.data(): the words written by the callee, read as int64_t
SignedCopy(target) == [i \in 1 .. Len(target) |-> ToSigned(target[i])] \o <<>>

\* the loop is left: resize pp, qq; res(s); multiply_cyclic_raw
MultCall ==
    /\ pc = "sizing"
    /\ ~(loc.s < GrowBound(arg.p, arg.q))
    /\ loc' = [loc EXCEPT !.pp = Resize(loc.pp, loc.s),
                          !.qq = Resize(loc.qq, loc.s)]
    /\ out' = SignedCopy(MultiplyCyclicRaw(Resize(loc.pp, loc.s),
                                           Resize(loc.qq, loc.s), loc.s))
    /\ pc' = "called"
    /\ UNCHANGED <<arg, buf, call, stack>>

\* res.resize(p.size() + q.size() - 1); return res;
MultReturn ==
    /\ pc = "called"
    /\ out' = Resize(out, ResultSize(arg.p, arg.q))
    /\ pc' = "done"
    /\ UNCHANGED <<arg, loc, buf, call, stack>>

NextMultiply == MultConvert \/ MultGrow \/ MultCall \/ MultReturn

SpecMultiply == InitMultiply /\ [][NextMultiply]_vars

\* Coefficient k of the product of p and q in Z[x].
LinearProduct(p, q, k) ==
    LET Term(i) == IF k - i >= 0 /\ k - i < Len(q) THEN p[i + 1] * q[k - i + 1] ELSE 0
    IN  SumZ(Term, 0, Len(p))

\* C1: for non-empty p and q, multiply returns |p| + |q| - 1 coefficients,
\* the k-th congruent modulo 2^WordBits to the sum of p[i]*q[j] over i + j = k.
C1_LinearProduct ==
    (pc = "done" /\ Len(arg.p) >= 1 /\ Len(arg.q) >= 1) =>
        /\ Len(out) = Len(arg.p) + Len(arg.q) - 1
        /\ \A k \in 0 .. Len(arg.p) + Len(arg.q) - 2 :
                (out[k + 1] - LinearProduct(arg.p, arg.q, k)) % Modulus = 0

\* A product padded from 6 coefficients to s = 9, with negative
\* coefficients on both sides and a nonzero leading coefficient.
C1_Witness ==
    /\ pc = "done"
    /\ Len(arg.p) = 3 /\ Len(arg.q) = 4
    /\ loc.s = 9
    /\ \E i \in 1 .. 3 : arg.p[i] < 0
    /\ \E i \in 1 .. 4 : arg.q[i] < 0
    /\ Len(out) = 6 /\ out[6] # 0

\* C2: with an empty input, multiply returns the empty sequence.
C2_EmptyReturnsEmpty ==
    (pc = "done" /\ (Len(arg.p) = 0 \/ Len(arg.q) = 0)) => out = <<>>

---------------------------------------------------------------------------
(* SpecCalls *)

InitCalls ==
    /\ pc = "calls"
    /\ \E k \in 0 .. MaxK :
            /\ arg = [n |-> Pow3(k)]
            /\ loc = CyclicLocals(Pow3(k))
            /\ call = CallCyclic(Pow3(k))
    /\ stack = <<>>
    /\ buf = <<>>
    /\ out = <<>>

\* The body of `call` calls c.
Enter(c) ==
    /\ c \in Callees(call, loc, Len(stack))
    /\ call' = c
    /\ stack' = IF call.fn = "mul" THEN Append(stack, call) ELSE stack
    /\ UNCHANGED <<pc, arg, loc, buf, out>>

EnterFftDif == \E c \in Callees(call, loc, Len(stack)) : c.fn = "fftdif" /\ Enter(c)
EnterFftDit == \E c \in Callees(call, loc, Len(stack)) : c.fn = "fftdit" /\ Enter(c)
EnterTwiddle == \E c \in Callees(call, loc, Len(stack)) : c.fn = "twiddle" /\ Enter(c)
EnterMul == \E c \in Callees(call, loc, Len(stack)) : c.fn = "mul" /\ Enter(c)

NextCalls == EnterFftDif \/ EnterFftDit \/ EnterTwiddle \/ EnterMul

SpecCalls == InitCalls /\ [][NextCalls]_vars

\* C7 (as amended): in the recursive step of mul for n = 3^k > 27,
\* m = 3^ceil(k/2) and r = n/m = 3^floor(k/2), so r <= m <= 3r and r is a
\* power of 3.
C7_MulSplit ==
    (call.fn = "mul" /\ call.n > 27) =>
        /\ call.m = Pow3((Log3(call.n) + 1) \div 2)
        /\ call.r = Pow3(Log3(call.n) \div 2)
        /\ call.m * call.r = call.n
        /\ call.r <= call.m /\ call.m <= 3 * call.r
        /\ IsPow3(call.r)

\* C7 as the specification states it: m = 3^floor(k/2), r = n/m,
\* m <= r <= 3m, r a power of 3.
C7_MulSplitAsStated ==
    (call.fn = "mul" /\ call.n > 27) =>
        /\ call.m = Pow3(Log3(call.n) \div 2)
        /\ call.m * call.r = call.n
        /\ call.m <= call.r /\ call.r <= 3 * call.m
        /\ IsPow3(call.r)

\* A recursive mul call with odd k, where m and r differ.
C7_Witness ==
    call.fn = "mul" /\ call.n = 243 /\ call.m = 27 /\ call.r = 9

\* The mul frames around the body of `call`, `call` itself included.
Frames == IF call.fn = "mul" THEN Append(stack, call) ELSE stack

\* C9: every cell a call touches lies inside the buffer of 3n + 6m cells;
\* what a mul(p, q, n', to) call and the calls nested in it touch through
\* `to` lies in to[0 .. 3n' + 3m') and below the FFT scratch tmp.
C9_InBounds ==
    \A a \in Accesses(call, loc, Len(stack)) :
        /\ 0 <= a.addr
        /\ a.addr + a.len <= CyclicBufLen(arg.n)
        /\ Len(a.org) = Len(Frames)
        /\ \A k \in 1 .. Len(Frames) :
            a.org[k] = "to" =>
                /\ Frames[k].to.addr <= a.addr
                /\ a.addr + a.len
                        <= Frames[k].to.addr + 3 * Frames[k].n
                                + 3 * MulBlock(Frames[k].n)
                /\ a.addr + a.len <= loc.tmp

\* The last grade-school mul nested in the last recursive mul of the top
\* level: its output ends where the scratch of its caller ends, n + 2m
\* cells into the top-level `to`.
C9_Witness ==
    /\ call.fn = "mul" /\ Len(stack) = 1
    /\ stack[1].n > 27
    /\ call.to.addr + call.n = stack[1].to.addr + 3 * stack[1].n
    /\ call.to.addr + call.n = loc.to + arg.n + 2 * loc.m
    /\ C9_InBounds

\* C10: every twiddle call has 0 <= t <= 3m; r divides 3m at every FFT
\* call and r divides m at every substitution step of mul, so no exponent
\* is truncated by its integer division.
C10_Exponents ==
    /\ call.fn = "twiddle" => (0 <= call.t /\ call.t <= 3 * call.m)
    /\ call.fn \in {"fftdif", "fftdit"} =>
        /\ (3 * call.m) % call.r = 0
        /\ \A i \in 0 .. (call.r \div 3) - 1 :
            /\ (3 * i * call.m) % call.r = 0
            /\ (6 * i * call.m) % call.r = 0
    /\ (call.fn = "mul" /\ call.n > 27) =>
        /\ call.m % call.r = 0
        /\ (2 * call.m) % call.r = 0

\* An inverse-FFT twiddle inside a recursive mul with m # r, by an exponent
\* strictly between 2m and 3m.
C10_Witness ==
    /\ call.fn = "twiddle" /\ Len(stack) = 1
    /\ stack[1].n = 243
    /\ call.p.org = <<"to">> /\ call.to.org = <<"tmp">>
    /\ 2 * call.m < call.t /\ call.t < 3 * call.m

===========================================================================
